---- MODULE Spec2Model ----
(***************************************************************************)
(* Apples and Pears: a single-player tic-tac-toe game (src/main.go).       *)
(* The model is the Game struct and its frame callback Game.Update, with   *)
(* the helpers Update calls (Reset, makeAIMove, checkWin, checkDraw).      *)
(* Rendering (Draw, Layout, loadImage, main) changes no game state and is  *)
(* not modelled.                                                           *)
(***************************************************************************)
EXTENDS Integers, Sequences, FiniteSets

(***************************************************************************)
(* Program constants                                                       *)
(***************************************************************************)
ScreenWidth == 600
ScreenHeight == 600
BoardSize == 3
CellSize == ScreenWidth \div BoardSize

\* type Cell
Empty == 0
X == 1
O == 2

\* type GameState
Playing == 0
XWins == 1
OWins == 2
Draw == 3

\* g.aiDelay = 30 after a human move that does not end the game
AIDelayFrames == 30

(***************************************************************************)
(* Bounds of the model                                                     *)
(***************************************************************************)
\* How many cells beyond the board, on either side, the cursor may be.
MaxOff == 1

\* Cursor coordinates tried on each axis: the last pixel of every cell-wide
\* strip from MaxOff cells before the board to MaxOff cells after it, and the
\* first pixel of the farthest strip, of the board and of the area after it.
Coords ==
    { c * CellSize - 1 : c \in (1 - MaxOff)..(BoardSize + MaxOff) }
        \cup { c * CellSize : c \in {0 - MaxOff, 0, BoardSize} }

(***************************************************************************)
(* State: the fields of Game, and a record of the last Update call         *)
(***************************************************************************)
VARIABLES
    board,        \* g.board: board[row][col]
    currentTurn,  \* g.currentTurn
    state,        \* g.state
    aiDelay,      \* g.aiDelay
    prev,         \* the Game as it was before the last call
    call,         \* the last call: which branch ran and the inputs it read
    ret,          \* the last value returned by a helper called on its own
    waited        \* the Update calls on the AI's turn that placed no mark,
                  \* counted since the human last handed the turn to O
                  \* (counted up to AIDelayFrames + 1)

vars == <<board, currentTurn, state, aiDelay, prev, call, ret, waited>>

Idx == 0..(BoardSize - 1)
Cells == Idx \X Idx
Marks == {X, O}
GameStates == {Playing, XWins, OWins, Draw}

\* The Game struct as one value.
Game ==
    [board |-> board, currentTurn |-> currentTurn, state |-> state, aiDelay |-> aiDelay]

\* Go's zero value of [BoardSize][BoardSize]Cell.
ZeroBoard == [row \in Idx |-> [col \in Idx |-> Empty]]

\* g.board[row][col] = m
Place(b, row, col, m) == [b EXCEPT ![row][col] = m]

\* Go's integer division, which truncates toward zero (b > 0).
GoDiv(a, b) == IF a >= 0 THEN a \div b ELSE 0 - ((0 - a) \div b)

NewGame ==
    [board |-> ZeroBoard, currentTurn |-> X, state |-> Playing, aiDelay |-> 0]

\* Reset as it would be without "g.currentTurn = X".
Reset_KeepsTurn(g) ==
    [g EXCEPT !.board = [row \in Idx |-> [col \in Idx |-> Empty]],
              !.state = Playing,
              !.aiDelay = 0]

Reset(g) ==
    [g EXCEPT !.board = [row \in Idx |-> [col \in Idx |-> Empty]],
              !.currentTurn = X,
              !.state = Playing,
              !.aiDelay = 0]

\* checkWin as it would be without the check of the second diagonal.
checkWin_OneDiagonal(b) ==
    \/ \E row \in Idx :
          b[row][0] # Empty /\ b[row][0] = b[row][1] /\ b[row][1] = b[row][2]
    \/ \E col \in Idx :
          b[0][col] # Empty /\ b[0][col] = b[1][col] /\ b[1][col] = b[2][col]
    \/ (b[0][0] # Empty /\ b[0][0] = b[1][1] /\ b[1][1] = b[2][2])

checkWin(b) ==
    \/ \E row \in Idx :
          b[row][0] # Empty /\ b[row][0] = b[row][1] /\ b[row][1] = b[row][2]
    \/ \E col \in Idx :
          b[0][col] # Empty /\ b[0][col] = b[1][col] /\ b[1][col] = b[2][col]
    \/ (b[0][0] # Empty /\ b[0][0] = b[1][1] /\ b[1][1] = b[2][2])
    \/ (b[0][2] # Empty /\ b[0][2] = b[1][1] /\ b[1][1] = b[2][0])

checkDraw(b) ==
    ~ \E row \in Idx : \E col \in Idx : b[row][col] = Empty

(***************************************************************************)
(* makeAIMove                                                              *)
(***************************************************************************)
\* The loops as they would run with row and col swapped: "for col ... for row ...".
CellAt_ColumnMajor(i) == <<i % BoardSize, i \div BoardSize>>

\* The i-th cell (i = 0..8) of the nested loops "for row ... for col ...".
CellAt(i) == <<i \div BoardSize, i % BoardSize>>

\* The first loop as it would be without "g.board[row][col] = Empty" after a
\* trial that did not win.
RECURSIVE scanWin_NoUndo(_, _)
scanWin_NoUndo(b, i) ==
    IF i >= BoardSize * BoardSize
    THEN [won |-> FALSE, board |-> b]
    ELSE LET row == CellAt(i)[1]
             col == CellAt(i)[2]
         IN  IF b[row][col] = Empty
             THEN LET tried == Place(b, row, col, O)
                  IN  IF checkWin(tried)
                      THEN [won |-> TRUE, board |-> tried]
                      ELSE scanWin_NoUndo(tried, i + 1)
             ELSE scanWin_NoUndo(b, i + 1)

\* The first loop of makeAIMove from cell i on: try O on each empty cell,
\* leave it when checkWin reports a win, undo it otherwise.
RECURSIVE scanWin(_, _)
scanWin(b, i) ==
    IF i >= BoardSize * BoardSize
    THEN [won |-> FALSE, board |-> b]
    ELSE LET row == CellAt(i)[1]
             col == CellAt(i)[2]
         IN  IF b[row][col] = Empty
             THEN LET tried == Place(b, row, col, O)
                  IN  IF checkWin(tried)
                      THEN [won |-> TRUE, board |-> tried]
                      ELSE scanWin(Place(tried, row, col, Empty), i + 1)
             ELSE scanWin(b, i + 1)

\* The second loop of makeAIMove from cell i on: the empty cells, row-major.
RECURSIVE emptyCells(_, _)
emptyCells(b, i) ==
    IF i >= BoardSize * BoardSize
    THEN << >>
    ELSE IF b[CellAt(i)[1]][CellAt(i)[2]] = Empty
         THEN <<CellAt(i)>> \o emptyCells(b, i + 1)
         ELSE emptyCells(b, i + 1)

\* True iff makeAIMove on board b gets as far as rng.Intn.
drawsRandom(b) ==
    /\ ~ scanWin(b, 0).won
    /\ b[1][1] # Empty
    /\ Len(emptyCells(b, 0)) > 0

\* The values rng.Intn(len(emptyCells)) can return on board b; {0} stands for
\* "rng not consulted".
IntnRange(b) ==
    IF drawsRandom(b) THEN 0..(Len(emptyCells(b, 0)) - 1) ELSE {0}

\* makeAIMove as it would be without the centre rule, and with rng.Intn
\* returning 0 where the code does not call it.
makeAIMove_NoCenter(b, r) ==
    LET scan == scanWin(b, 0)
    IN  IF scan.won
        THEN scan.board
        ELSE LET cells == emptyCells(scan.board, 0)
             IN  IF Len(cells) > 0
                 THEN Place(scan.board, cells[r + 1][1], cells[r + 1][2], O)
                 ELSE scan.board

\* makeAIMove as it would be if the random index were used on all the cells
\* of the board instead of on emptyCells.
makeAIMove_IndexAllCells(b, r) ==
    LET scan == scanWin(b, 0)
    IN  IF scan.won
        THEN scan.board
        ELSE IF scan.board[1][1] = Empty
             THEN Place(scan.board, 1, 1, O)
             ELSE IF Len(emptyCells(scan.board, 0)) > 0
                  THEN Place(scan.board, CellAt(r)[1], CellAt(r)[2], O)
                  ELSE scan.board

\* makeAIMove as it would be with a blocking rule after the centre rule: O
\* goes on the first empty cell on which an X would win, if there is one.
makeAIMove_Blocks(b, r) ==
    LET scan == scanWin(b, 0)
    IN  IF scan.won
        THEN scan.board
        ELSE IF scan.board[1][1] = Empty
             THEN Place(scan.board, 1, 1, O)
             ELSE LET cells == emptyCells(scan.board, 0)
                      blocks == SelectSeq(cells,
                                    LAMBDA c : checkWin(Place(scan.board, c[1], c[2], X)))
                  IN  IF Len(blocks) > 0
                      THEN Place(scan.board, blocks[1][1], blocks[1][2], O)
                      ELSE IF Len(cells) > 0
                           THEN Place(scan.board, cells[r + 1][1], cells[r + 1][2], O)
                           ELSE scan.board

\* makeAIMove on board b, r being the value rng.Intn returns if it is called.
makeAIMove(b, r) ==
    LET scan == scanWin(b, 0)
    IN  IF scan.won
        THEN scan.board
        ELSE IF scan.board[1][1] = Empty
             THEN Place(scan.board, 1, 1, O)
             ELSE LET cells == emptyCells(scan.board, 0)
                  IN  IF Len(cells) > 0
                      THEN Place(scan.board, cells[r + 1][1], cells[r + 1][2], O)
                      ELSE scan.board

(***************************************************************************)
(* Game.Update, one operator per branch                                    *)
(***************************************************************************)
\* The game-over branch as it would be without its "return nil": after the
\* Reset the click is handled as a move, here with the cursor on cell (0, 0).
UpdateGameOver_NoReturn(g, click) ==
    IF click
    THEN LET n == Reset(g)
         IN  [n EXCEPT !.board = Place(n.board, 0, 0, n.currentTurn),
                       !.currentTurn = O,
                       !.aiDelay = AIDelayFrames]
    ELSE g

\* g.state != Playing: a click resets, anything else is ignored.
UpdateGameOver(g, click) ==
    IF click THEN Reset(g) ELSE g

\* The human branch as it would be with checkDraw tested before checkWin.
UpdateHuman_DrawBeforeWin(g, click, x, y) ==
    IF ~ click
    THEN g
    ELSE LET row == GoDiv(y, CellSize)
             col == GoDiv(x, CellSize)
         IN  IF /\ row >= 0 /\ row < BoardSize
                /\ col >= 0 /\ col < BoardSize
                /\ g.board[row][col] = Empty
             THEN LET b == Place(g.board, row, col, g.currentTurn)
                  IN  IF checkDraw(b)
                      THEN [g EXCEPT !.board = b, !.state = Draw]
                      ELSE IF checkWin(b)
                           THEN [g EXCEPT !.board = b, !.state = XWins]
                           ELSE [g EXCEPT !.board = b,
                                          !.currentTurn = O,
                                          !.aiDelay = AIDelayFrames]
             ELSE g

\* The human branch as it would be without the "else if g.checkDraw()" arm.
UpdateHuman_NoDrawCheck(g, click, x, y) ==
    IF ~ click
    THEN g
    ELSE LET row == GoDiv(y, CellSize)
             col == GoDiv(x, CellSize)
         IN  IF /\ row >= 0 /\ row < BoardSize
                /\ col >= 0 /\ col < BoardSize
                /\ g.board[row][col] = Empty
             THEN LET b == Place(g.board, row, col, g.currentTurn)
                  IN  IF checkWin(b)
                      THEN [g EXCEPT !.board = b, !.state = XWins]
                      ELSE [g EXCEPT !.board = b,
                                     !.currentTurn = O,
                                     !.aiDelay = AIDelayFrames]
             ELSE g

\* The human branch as it would be with the axes swapped: "row := x / CellSize"
\* and "col := y / CellSize".
UpdateHuman_SwapsAxes(g, click, x, y) ==
    IF ~ click
    THEN g
    ELSE LET row == GoDiv(x, CellSize)
             col == GoDiv(y, CellSize)
         IN  IF /\ row >= 0 /\ row < BoardSize
                /\ col >= 0 /\ col < BoardSize
                /\ g.board[row][col] = Empty
             THEN LET b == Place(g.board, row, col, g.currentTurn)
                  IN  IF checkWin(b)
                      THEN [g EXCEPT !.board = b, !.state = XWins]
                      ELSE IF checkDraw(b)
                           THEN [g EXCEPT !.board = b, !.state = Draw]
                           ELSE [g EXCEPT !.board = b,
                                          !.currentTurn = O,
                                          !.aiDelay = AIDelayFrames]
             ELSE g

\* The human branch as it would be without "g.board[row][col] == Empty".
UpdateHuman_NoEmptyCheck(g, click, x, y) ==
    IF ~ click
    THEN g
    ELSE LET row == GoDiv(y, CellSize)
             col == GoDiv(x, CellSize)
         IN  IF /\ row >= 0 /\ row < BoardSize
                /\ col >= 0 /\ col < BoardSize
             THEN LET b == Place(g.board, row, col, g.currentTurn)
                  IN  IF checkWin(b)
                      THEN [g EXCEPT !.board = b, !.state = XWins]
                      ELSE IF checkDraw(b)
                           THEN [g EXCEPT !.board = b, !.state = Draw]
                           ELSE [g EXCEPT !.board = b,
                                          !.currentTurn = O,
                                          !.aiDelay = AIDelayFrames]
             ELSE g

\* The human branch as it would be if the turn were handed to O right after
\* the mark is placed, before the win and draw checks.
UpdateHuman_HandsTurnFirst(g, click, x, y) ==
    IF ~ click
    THEN g
    ELSE LET row == GoDiv(y, CellSize)
             col == GoDiv(x, CellSize)
         IN  IF /\ row >= 0 /\ row < BoardSize
                /\ col >= 0 /\ col < BoardSize
                /\ g.board[row][col] = Empty
             THEN LET b == Place(g.board, row, col, g.currentTurn)
                  IN  IF checkWin(b)
                      THEN [g EXCEPT !.board = b, !.currentTurn = O, !.state = XWins]
                      ELSE IF checkDraw(b)
                           THEN [g EXCEPT !.board = b, !.currentTurn = O, !.state = Draw]
                           ELSE [g EXCEPT !.board = b,
                                          !.currentTurn = O,
                                          !.aiDelay = AIDelayFrames]
             ELSE g

\* g.currentTurn == X: the human's turn. (x, y) is ebiten.CursorPosition().
UpdateHuman(g, click, x, y) ==
    IF ~ click
    THEN g
    ELSE LET row == GoDiv(y, CellSize)
             col == GoDiv(x, CellSize)
         IN  IF /\ row >= 0 /\ row < BoardSize
                /\ col >= 0 /\ col < BoardSize
                /\ g.board[row][col] = Empty
             THEN LET b == Place(g.board, row, col, g.currentTurn)
                  IN  IF checkWin(b)
                      THEN [g EXCEPT !.board = b, !.state = XWins]
                      ELSE IF checkDraw(b)
                           THEN [g EXCEPT !.board = b, !.state = Draw]
                           ELSE [g EXCEPT !.board = b,
                                          !.currentTurn = O,
                                          !.aiDelay = AIDelayFrames]
             ELSE g

\* The AI branch as it would be without "g.currentTurn = X".
UpdateAI_KeepsTurn(g, r) ==
    IF g.aiDelay > 0
    THEN [g EXCEPT !.aiDelay = g.aiDelay - 1]
    ELSE LET b == makeAIMove(g.board, r)
         IN  IF checkWin(b)
             THEN [g EXCEPT !.board = b, !.state = OWins]
             ELSE IF checkDraw(b)
                  THEN [g EXCEPT !.board = b, !.state = Draw]
                  ELSE [g EXCEPT !.board = b]

\* The AI branch as it would be if the count were tested again after the
\* decrement, so that the move is made by the call that brings it to zero.
UpdateAI_MovesOnLastTick(g, r) ==
    IF g.aiDelay > 1
    THEN [g EXCEPT !.aiDelay = g.aiDelay - 1]
    ELSE LET b == makeAIMove(g.board, r)
         IN  IF checkWin(b)
             THEN [g EXCEPT !.aiDelay = 0, !.board = b, !.state = OWins]
             ELSE IF checkDraw(b)
                  THEN [g EXCEPT !.aiDelay = 0, !.board = b, !.state = Draw]
                  ELSE [g EXCEPT !.aiDelay = 0, !.board = b, !.currentTurn = X]

\* The AI branch as it would be without "g.aiDelay--".
UpdateAI_NoDecrement(g, r) ==
    IF g.aiDelay > 0
    THEN g
    ELSE LET b == makeAIMove(g.board, r)
         IN  IF checkWin(b)
             THEN [g EXCEPT !.board = b, !.state = OWins]
             ELSE IF checkDraw(b)
                  THEN [g EXCEPT !.board = b, !.state = Draw]
                  ELSE [g EXCEPT !.board = b, !.currentTurn = X]

\* g.currentTurn == O: the AI's turn.
UpdateAI(g, r) ==
    IF g.aiDelay > 0
    THEN [g EXCEPT !.aiDelay = g.aiDelay - 1]
    ELSE LET b == makeAIMove(g.board, r)
         IN  IF checkWin(b)
             THEN [g EXCEPT !.board = b, !.state = OWins]
             ELSE IF checkDraw(b)
                  THEN [g EXCEPT !.board = b, !.state = Draw]
                  ELSE [g EXCEPT !.board = b, !.currentTurn = X]

(***************************************************************************)
(* The game: NewGame, then one Update call per frame                       *)
(***************************************************************************)
NoCall == [branch |-> "none", click |-> FALSE, x |-> 0, y |-> 0, r |-> 0]
NoRet == [op |-> "none", val |-> FALSE]

\* The step that takes the Game from its current value to g, by call c.
Becomes(g, c) ==
    /\ board' = g.board
    /\ currentTurn' = g.currentTurn
    /\ state' = g.state
    /\ aiDelay' = g.aiDelay
    /\ prev' = Game
    /\ call' = c
    /\ ret' = ret
    /\ waited' = IF c.branch = "ai" /\ g.board = board
                 THEN (IF waited <= AIDelayFrames THEN waited + 1 ELSE waited)
                 ELSE IF c.branch = "human" /\ g.currentTurn # currentTurn
                      THEN 0
                      ELSE waited

Init ==
    /\ board = NewGame.board
    /\ currentTurn = NewGame.currentTurn
    /\ state = NewGame.state
    /\ aiDelay = NewGame.aiDelay
    /\ prev = NewGame
    /\ call = NoCall
    /\ ret = NoRet
    /\ waited = 0

\* Update while the game is over; the cursor position is not read.
FrameGameOver ==
    /\ state # Playing
    /\ \E click \in BOOLEAN :
          Becomes(UpdateGameOver(Game, click),
                  [branch |-> "over", click |-> click, x |-> 0, y |-> 0, r |-> 0])

\* Update on the human's turn; the cursor position is read only on a click.
FrameHuman ==
    /\ state = Playing
    /\ currentTurn = X
    /\ \/ Becomes(UpdateHuman(Game, FALSE, 0, 0),
                  [branch |-> "human", click |-> FALSE, x |-> 0, y |-> 0, r |-> 0])
       \/ \E x \in Coords : \E y \in Coords :
             Becomes(UpdateHuman(Game, TRUE, x, y),
                     [branch |-> "human", click |-> TRUE, x |-> x, y |-> y, r |-> 0])

\* Update on the AI's turn; the mouse is not read.
FrameAI ==
    /\ state = Playing
    /\ currentTurn # X
    /\ \E r \in (IF aiDelay > 0 THEN {0} ELSE IntnRange(board)) :
          Becomes(UpdateAI(Game, r),
                  [branch |-> "ai", click |-> FALSE, x |-> 0, y |-> 0, r |-> r])

Next == FrameGameOver \/ FrameHuman \/ FrameAI

Spec == Init /\ [][Next]_vars

\* Cursor coordinates of the liveness check: the middle pixel of each cell
\* column, the pixel before the board and the first pixel after it.
LiveCoords ==
    { c * CellSize + CellSize \div 2 : c \in Idx } \cup {0 - 1, ScreenWidth}

\* FrameHuman with the cursor on LiveCoords.
FrameHumanLive ==
    /\ state = Playing
    /\ currentTurn = X
    /\ \/ Becomes(UpdateHuman(Game, FALSE, 0, 0),
                  [branch |-> "human", click |-> FALSE, x |-> 0, y |-> 0, r |-> 0])
       \/ \E x \in LiveCoords : \E y \in LiveCoords :
             Becomes(UpdateHuman(Game, TRUE, x, y),
                     [branch |-> "human", click |-> TRUE, x |-> x, y |-> y, r |-> 0])

NextLive == FrameGameOver \/ FrameHumanLive \/ FrameAI

\* An Update on the human's turn that places a mark.
HumanMoves == FrameHumanLive /\ board' # board

\* FrameAI can take a step that changes some variable: ENABLED <<FrameAI>>_vars
\* as a state predicate.
CanStepAI ==
    /\ state = Playing
    /\ currentTurn # X
    /\ \E r \in (IF aiDelay > 0 THEN {0} ELSE IntnRange(board)) :
          \/ UpdateAI(Game, r) # Game
          \/ prev # Game
          \/ call # [branch |-> "ai", click |-> FALSE, x |-> 0, y |-> 0, r |-> r]
          \/ waited <= AIDelayFrames

\* Weak fairness of FrameAI: frames keep coming, so on the AI's turn Update
\* is called again and again. This is WF_vars(FrameAI) written out, with
\* CanStepAI for ENABLED <<FrameAI>>_vars.
FairAI == []<>(~ CanStepAI) \/ []<><<FrameAI>>_vars

\* The game with frames that keep coming and a human who, on X's turn,
\* eventually clicks an empty cell.
LiveSpec == Init /\ [][NextLive]_vars /\ FairAI /\ WF_vars(HumanMoves)

(***************************************************************************)
(* The helpers called on their own, on any value of their input            *)
(***************************************************************************)
AllBoards == [Idx -> [Idx -> {Empty, X, O}]]

\* Any board; the other fields do not matter to checkWin.
InitWin ==
    /\ board \in AllBoards
    /\ currentTurn = X
    /\ state = Playing
    /\ aiDelay = 0
    /\ prev = NewGame
    /\ call = NoCall
    /\ ret = NoRet
    /\ waited = 0

\* Any Game value.
InitReset ==
    /\ board \in AllBoards
    /\ currentTurn \in Marks
    /\ state \in GameStates
    /\ aiDelay \in {0, AIDelayFrames}
    /\ prev = NewGame
    /\ call = NoCall
    /\ ret = NoRet
    /\ waited = 0

\* g.checkWin() on the board as it is.
CallCheckWin ==
    /\ ret.op = "none"
    /\ ret' = [op |-> "checkWin", val |-> checkWin(board)]
    /\ UNCHANGED <<board, currentTurn, state, aiDelay, prev, call, waited>>

\* g.Reset() on the Game as it is.
CallReset ==
    /\ ret.op = "none"
    /\ board' = Reset(Game).board
    /\ currentTurn' = Reset(Game).currentTurn
    /\ state' = Reset(Game).state
    /\ aiDelay' = Reset(Game).aiDelay
    /\ prev' = Game
    /\ ret' = [op |-> "Reset", val |-> FALSE]
    /\ UNCHANGED <<call, waited>>

SpecWin == InitWin /\ [][CallCheckWin]_vars

SpecReset == InitReset /\ [][CallReset]_vars

(***************************************************************************)
(* Vocabulary of the properties                                            *)
(***************************************************************************)
\* The 3 rows, 3 columns and 2 diagonals, each as a set of cells.
Lines ==
    { { <<row, col>> : col \in Idx } : row \in Idx }
        \cup { { <<row, col>> : row \in Idx } : col \in Idx }
        \cup { { <<i, i>> : i \in Idx }, { <<i, BoardSize - 1 - i>> : i \in Idx } }

\* Some row, column or diagonal of b is entirely m.
HasLine(b, m) == \E l \in Lines : \A c \in l : b[c[1]][c[2]] = m

\* The number of cells of b that hold m.
Count(b, m) == Cardinality({ c \in Cells : b[c[1]][c[2]] = m })

\* The cells on which a and b differ.
Changed(a, b) == { c \in Cells : a[c[1]][c[2]] # b[c[1]][c[2]] }

\* The board b with m on cell c.
With(b, c, m) == [b EXCEPT ![c[1]][c[2]] = m]

\* The empty cells of b on which an O completes a line of O.
WinningCells(b) ==
    { c \in Cells : b[c[1]][c[2]] = Empty /\ HasLine(With(b, c, O), O) }

\* The cell of S that comes first in row-major order.
RowMajorFirst(S) ==
    CHOOSE c \in S : \A d \in S : c[1] * BoardSize + c[2] <= d[1] * BoardSize + d[2]

Other(m) == IF m = X THEN O ELSE X

\* The (row, col) the last click maps to.
ClickRow == GoDiv(call.y, CellSize)
ClickCol == GoDiv(call.x, CellSize)
ClickInRange == ClickRow \in Idx /\ ClickCol \in Idx

\* The last call was an Update on the human's turn, with a click.
HumanClicked ==
    /\ call.branch = "human"
    /\ prev.state = Playing
    /\ prev.currentTurn = X
    /\ call.click

\* The last call was the Update in which the AI moved (makeAIMove ran).
AIMoved ==
    /\ call.branch = "ai"
    /\ prev.state = Playing
    /\ prev.currentTurn = O
    /\ prev.aiDelay = 0

\* The last call left board, state and currentTurn as they were.
Untouched ==
    /\ board = prev.board
    /\ state = prev.state
    /\ currentTurn = prev.currentTurn

(***************************************************************************)
(* C1                                                                      *)
(***************************************************************************)
\* C1: on the human's turn, an Update whose click maps to an out-of-range
\* (row, col) or to an occupied cell leaves board, state and currentTurn
\* (and aiDelay) unchanged.
C1_IgnoredClickChangesNothing ==
    (HumanClicked /\ (~ ClickInRange \/ prev.board[ClickRow][ClickCol] # Empty))
        => (Untouched /\ aiDelay = prev.aiDelay)

\* A click on a cell that holds the AI's mark has been ignored.
C1_Witness ==
    /\ HumanClicked
    /\ ClickInRange
    /\ prev.board[ClickRow][ClickCol] = O
    /\ Game = prev

(***************************************************************************)
(* C2                                                                      *)
(***************************************************************************)
\* C2: a click whose cursor position is outside the 600x600 board area
\* (x < 0, x >= 600, y < 0 or y >= 600) never places a mark and never changes
\* state or currentTurn.
C2_ClickOutsideBoardDiscarded ==
    ( /\ HumanClicked
      /\ \/ call.x < 0 \/ call.x >= ScreenWidth
         \/ call.y < 0 \/ call.y >= ScreenHeight )
        => Untouched

(***************************************************************************)
(* C3                                                                      *)
(***************************************************************************)
\* C3: once the game is over, an Update without a click changes nothing and
\* an Update with a click performs Reset only: the board is empty afterwards,
\* so no mark was placed for that click.
C3_GameOverOnlyReset ==
    (call.branch # "none" /\ prev.state # Playing)
        => IF call.click
           THEN /\ Count(board, Empty) = BoardSize * BoardSize
                /\ state = Playing
                /\ currentTurn = X
           ELSE Game = prev

\* A game O had won has been reset by a click.
C3_Witness ==
    /\ call.branch = "over"
    /\ prev.state = OWins
    /\ call.click
    /\ Count(prev.board, Empty) < BoardSize * BoardSize
    /\ Count(board, Empty) = BoardSize * BoardSize
    /\ state = Playing

(***************************************************************************)
(* C4 (checked under SpecReset: Reset applied to any Game value)           *)
(***************************************************************************)
\* C4: Reset, from any game state, yields the empty board, currentTurn = X,
\* state = Playing and aiDelay = 0: exactly the value NewGame returns.
C4_ResetYieldsNewGame ==
    ret.op = "Reset"
        => /\ \A c \in Cells : board[c[1]][c[2]] = Empty
           /\ currentTurn = X
           /\ state = Playing
           /\ aiDelay = 0
           /\ Game = NewGame

\* Reset has run on a game that differed from a new one in every field.
C4_Witness ==
    /\ ret.op = "Reset"
    /\ Count(prev.board, Empty) = 0
    /\ prev.currentTurn = O
    /\ prev.state = OWins
    /\ prev.aiDelay > 0
    /\ Game = NewGame

(***************************************************************************)
(* C5                                                                      *)
(***************************************************************************)
\* C5: while the game is Playing an Update places at most one mark, on an
\* empty cell, and the mark is that of currentTurn: X only when as many X as
\* O are on the board, O only when there is one X more. A move that does not
\* end the game flips currentTurn; an Update that places no mark keeps it.
C5_TurnsAlternate ==
    (call.branch # "none" /\ prev.state = Playing)
        => LET ch == Changed(prev.board, board)
           IN  /\ Cardinality(ch) <= 1
               /\ \A c \in ch :
                     /\ prev.board[c[1]][c[2]] = Empty
                     /\ board[c[1]][c[2]] = prev.currentTurn
                     /\ prev.currentTurn = X
                           => Count(prev.board, X) = Count(prev.board, O)
                     /\ prev.currentTurn = O
                           => Count(prev.board, X) = Count(prev.board, O) + 1
               /\ (ch # {} /\ state = Playing) => currentTurn = Other(prev.currentTurn)
               /\ ch = {} => currentTurn = prev.currentTurn

\* The AI has placed its third O without ending the game, and it is X's turn.
C5_Witness ==
    /\ AIMoved
    /\ Changed(prev.board, board) # {}
    /\ Count(board, O) = 3
    /\ Count(board, X) = 3
    /\ state = Playing
    /\ currentTurn = X

(***************************************************************************)
(* C6 (checked under SpecWin: checkWin applied to each of the 3^9 boards)  *)
(***************************************************************************)
\* The marks on b are those of a game in which m moved last: X moves first
\* and the marks alternate.
MovedLast(b, m) ==
    /\ Count(b, m) >= 1
    /\ Count(b, X) = Count(b, O) + (IF m = X THEN 1 ELSE 0)

\* C6 as stated: on every board, for each mark m, the win check applied after
\* m's move returns true iff some row, column or diagonal is entirely m.
C6_WinIffLineOfMover ==
    ret.op = "checkWin"
        => \A m \in Marks : MovedLast(board, m) => (ret.val <=> HasLine(board, m))

\* C6 as amended: on every one of the 3^9 boards checkWin, which takes no
\* mark, returns true iff some row, column or diagonal is entirely X or
\* entirely O; so after m's move it returns true iff some line is entirely m
\* on every board on which the other mark has no complete line.
C6_WinIffLineOfEitherMark ==
    ret.op = "checkWin"
        => /\ ret.val <=> (HasLine(board, X) \/ HasLine(board, O))
           /\ \A m \in Marks :
                 ~ HasLine(board, Other(m)) => (ret.val <=> HasLine(board, m))

\* checkWin has returned true on a board whose only complete line is the
\* second diagonal, held by O.
C6_Witness ==
    /\ ret.op = "checkWin"
    /\ ret.val
    /\ \A l \in Lines :
          (\A c \in l : board[c[1]][c[2]] = O)
              <=> l = { <<i, BoardSize - 1 - i>> : i \in Idx }
    /\ ~ HasLine(board, X)

(***************************************************************************)
(* C7                                                                      *)
(***************************************************************************)
\* C7: whenever the AI moves and some empty cell would complete a line of O,
\* the AI places O on the first such cell in row-major order and on no other
\* cell, and state is OWins when that Update returns.
C7_AITakesFirstWinningCell ==
    (AIMoved /\ WinningCells(prev.board) # {})
        => /\ board = With(prev.board, RowMajorFirst(WinningCells(prev.board)), O)
           /\ state = OWins

\* The AI has won from a board that offered two winning cells, of which the
\* first in row-major order is not the first in column-major order.
C7_Witness ==
    /\ AIMoved
    /\ Cardinality(WinningCells(prev.board)) >= 2
    /\ \E d \in WinningCells(prev.board) :
          d[2] < RowMajorFirst(WinningCells(prev.board))[2]
    /\ board = With(prev.board, RowMajorFirst(WinningCells(prev.board)), O)
    /\ state = OWins

(***************************************************************************)
(* C8                                                                      *)
(***************************************************************************)
\* C8: whenever the AI moves, no empty cell would complete a line of O and
\* cell (1,1) is empty, the AI places O on (1,1) and on no other cell.
C8_AITakesCenter ==
    (AIMoved /\ WinningCells(prev.board) = {} /\ prev.board[1][1] = Empty)
        => board = With(prev.board, <<1, 1>>, O)

\* The AI has taken the centre of a board on which (0,0) was empty too.
C8_Witness ==
    /\ AIMoved
    /\ WinningCells(prev.board) = {}
    /\ prev.board[1][1] = Empty
    /\ prev.board[0][0] = Empty
    /\ board[1][1] = O
    /\ Changed(prev.board, board) = { <<1, 1>> }

(***************************************************************************)
(* C9                                                                      *)
(***************************************************************************)
\* The AI is about to move on a board with no winning cell and the centre
\* occupied.
AIAboutToDraw ==
    /\ state = Playing
    /\ currentTurn = O
    /\ aiDelay = 0
    /\ WinningCells(board) = {}
    /\ board[1][1] # Empty

\* C9: whenever the AI moves, no empty cell would complete a line of O and
\* the centre is occupied, the AI places O on exactly one cell that was
\* empty, leaving every other cell as it was; and every empty cell is a
\* possible choice: for each of them some value rng.Intn can return makes
\* Update place O there.
C9_AITakesSomeEmptyCell ==
    /\ (AIMoved /\ WinningCells(prev.board) = {} /\ prev.board[1][1] # Empty)
          => \E c \in Cells :
                /\ prev.board[c[1]][c[2]] = Empty
                /\ board = With(prev.board, c, O)
    /\ AIAboutToDraw
          => \A c \in Cells :
                board[c[1]][c[2]] = Empty
                    => \E r \in IntnRange(board) :
                          UpdateAI(Game, r).board = With(board, c, O)

\* The AI has drawn the last of four empty cells.
C9_Witness ==
    /\ AIMoved
    /\ WinningCells(prev.board) = {}
    /\ prev.board[1][1] # Empty
    /\ Count(prev.board, Empty) = 4
    /\ call.r = 3
    /\ Count(board, Empty) = 3
    /\ Count(board, O) = Count(prev.board, O) + 1

(***************************************************************************)
(* C10                                                                     *)
(***************************************************************************)
\* C10: when the human's move completes a line of X, state is XWins when
\* that Update returns and currentTurn is still X; and from state XWins an
\* Update either changes nothing or resets the game, so no O is added.
C10_XWinsAtOnce ==
    /\ (HumanClicked /\ board # prev.board /\ HasLine(board, X))
          => (state = XWins /\ currentTurn = X)
    /\ (call.branch # "none" /\ prev.state = XWins)
          => /\ Count(board, O) <= Count(prev.board, O)
             /\ Game = prev \/ Count(board, Empty) = BoardSize * BoardSize

\* X on (0,0), (0,1), (0,2) and O on (1,1), (1,0): the click on the third
\* cell of row 0 has just made state XWins.
C10_Witness ==
    /\ HumanClicked
    /\ Changed(prev.board, board) \subseteq { <<0, c>> : c \in Idx }
    /\ Changed(prev.board, board) # {}
    /\ \A c \in Idx : board[0][c] = X
    /\ board[1][1] = O /\ board[1][0] = O
    /\ board[1][2] = Empty /\ \A c \in Idx : board[2][c] = Empty
    /\ state = XWins
    /\ currentTurn = X

(***************************************************************************)
(* C11                                                                     *)
(***************************************************************************)
\* The last call placed a mark on the last empty cell.
FilledLastCell ==
    /\ call.branch \in {"human", "ai"}
    /\ Count(prev.board, Empty) = 1
    /\ Count(board, Empty) = 0

\* C11: after a move that fills the last empty cell, state is Draw iff
\* neither mark has a complete row, column or diagonal; if the move completes
\* a line of the mover, state is the mover's win state and not Draw.
C11_FullBoardDrawIffNoLine ==
    FilledLastCell
        => /\ state = Draw <=> (~ HasLine(board, X) /\ ~ HasLine(board, O))
           /\ HasLine(board, prev.currentTurn)
                 => state = (IF prev.currentTurn = X THEN XWins ELSE OWins)

\* The human has filled the last cell and completed a line of X with it.
C11_Witness ==
    /\ FilledLastCell
    /\ HumanClicked
    /\ HasLine(board, X)
    /\ ~ HasLine(prev.board, X)
    /\ state = XWins

(***************************************************************************)
(* C12                                                                     *)
(***************************************************************************)
\* C12: in every reachable state the number of X cells minus the number of
\* O cells is 0 or 1.
C12_CountsDifferByAtMostOne ==
    Count(board, X) - Count(board, O) \in {0, 1}

\* A full board: five X and four O.
C12_Witness ==
    /\ Count(board, X) = 5
    /\ Count(board, O) = 4
    /\ call.branch = "human"
    /\ Count(prev.board, X) = 4

(***************************************************************************)
(* C13                                                                     *)
(***************************************************************************)
\* The last call was an Update that did not call Reset.
UpdatedWithoutReset ==
    /\ call.branch # "none"
    /\ ~ (prev.state # Playing /\ call.click)

\* C13: across an Update that is not a Reset every cell that held a mark
\* holds the same mark, and at most one cell goes from Empty to a mark; the
\* trial marks of makeAIMove's scan are gone when it returns.
C13_MarksAreKept ==
    UpdatedWithoutReset
        => /\ \A c \in Cells :
                 prev.board[c[1]][c[2]] # Empty
                     => board[c[1]][c[2]] = prev.board[c[1]][c[2]]
           /\ Cardinality(Changed(prev.board, board)) <= 1

\* The AI has moved on a board with six empty cells of which none wins: its
\* scan tried and undid six marks, and one O was added.
C13_Witness ==
    /\ AIMoved
    /\ Count(prev.board, Empty) = 6
    /\ WinningCells(prev.board) = {}
    /\ Count(board, Empty) = 5
    /\ Cardinality(Changed(prev.board, board)) = 1

(***************************************************************************)
(* C14                                                                     *)
(***************************************************************************)
\* C14: a human move that does not end the game sets the countdown to 30;
\* every Update made while the count is positive decrements it by one and
\* leaves board, state and currentTurn as they were; the Update that places
\* the AI's mark is the one made when the count is zero, after exactly 30
\* Update calls that placed nothing.
C14_AIWaitsThirtyFrames ==
    /\ (HumanClicked /\ board # prev.board /\ state = Playing)
          => (aiDelay = AIDelayFrames /\ currentTurn = O /\ waited = 0)
    /\ (call.branch = "ai" /\ prev.aiDelay > 0)
          => (aiDelay = prev.aiDelay - 1 /\ Untouched)
    /\ (state = Playing /\ currentTurn = O)
          => waited + aiDelay = AIDelayFrames
    /\ (call.branch = "ai" /\ board # prev.board)
          => /\ prev.aiDelay = 0
             /\ waited = AIDelayFrames
             /\ Count(board, O) = Count(prev.board, O) + 1

\* The AI has placed its first mark, 30 waiting frames after the human's.
C14_Witness ==
    /\ call.branch = "ai"
    /\ prev.aiDelay = 0
    /\ waited = AIDelayFrames
    /\ Count(prev.board, O) = 0
    /\ Count(board, O) = 1
    /\ Count(board, X) = 1

(***************************************************************************)
(* C15                                                                     *)
(***************************************************************************)
\* The next Update call will run makeAIMove.
AIAboutToMove ==
    /\ state = Playing
    /\ currentTurn = O
    /\ aiDelay = 0

\* C15: whenever makeAIMove is about to be called the board has an empty
\* cell and no complete line; and every call of it adds exactly one O and
\* changes no other cell.
C15_AINeverMovesOnFullBoard ==
    /\ AIAboutToMove
          => /\ Count(board, Empty) >= 1
             /\ ~ HasLine(board, X)
             /\ ~ HasLine(board, O)
    /\ AIMoved
          => /\ Count(prev.board, Empty) >= 1
             /\ Count(board, O) = Count(prev.board, O) + 1
             /\ Count(board, X) = Count(prev.board, X)
             /\ Count(board, Empty) = Count(prev.board, Empty) - 1

\* The AI is about to make its fourth move, on the fullest board it ever
\* sees: four X, three O, two empty cells.
C15_Witness ==
    /\ AIAboutToMove
    /\ Count(board, X) = 4
    /\ Count(board, O) = 3
    /\ Count(board, Empty) = 2

(***************************************************************************)
(* C16                                                                     *)
(***************************************************************************)
\* C16: on the human's turn a click at pixel (x, y) with 0 <= x < 600 and
\* 0 <= y < 600 on an empty cell places X on board[y div 200][x div 200], the
\* row taken from the vertical coordinate, and on no other cell.
C16_ClickPlacesXOnItsCell ==
    ( /\ HumanClicked
      /\ call.x >= 0 /\ call.x < ScreenWidth
      /\ call.y >= 0 /\ call.y < ScreenHeight
      /\ prev.board[call.y \div CellSize][call.x \div CellSize] = Empty )
        => board = With(prev.board, <<call.y \div CellSize, call.x \div CellSize>>, X)

\* A click on the last pixel of the top row has put X on board[0][2].
C16_Witness ==
    /\ HumanClicked
    /\ call.x = ScreenWidth - 1
    /\ call.y = 0
    /\ prev.board[0][2] = Empty
    /\ board[0][2] = X
    /\ board[2][0] = Empty
    /\ Changed(prev.board, board) = { <<0, 2>> }

(***************************************************************************)
(* C17                                                                     *)
(***************************************************************************)
\* The empty cells of b that complete a line holding two X: X's winning
\* moves, the cells a blocking move would take.
ThreatCells(b) ==
    { c \in Cells :
         /\ b[c[1]][c[2]] = Empty
         /\ \E l \in Lines : c \in l /\ \A d \in l \ {c} : b[d[1]][d[2]] = X }

\* C17 as stated: whenever the AI moves while some line holds two X marks
\* and one empty cell, the AI does not place its O on that empty cell.
C17_AINeverBlocks ==
    AIMoved => \A t \in ThreatCells(prev.board) : board[t[1]][t[2]] # O

\* C17 as amended: the AI has no blocking rule, and blocks only by chance.
\* Whenever it is about to move while some line holds two X marks and one
\* empty cell, the centre is occupied; if some cell wins for O the AI takes
\* the first of them, blocking or not; otherwise every empty cell can be its
\* move, the cell that blocks as well as every cell that does not.
C17_AIBlocksOnlyByChance ==
    (AIAboutToMove /\ ThreatCells(board) # {})
        => /\ board[1][1] # Empty
           /\ WinningCells(board) # {}
                 => \A r \in IntnRange(board) :
                       UpdateAI(Game, r).board
                           = With(board, RowMajorFirst(WinningCells(board)), O)
           /\ WinningCells(board) = {}
                 => /\ \A t \in ThreatCells(board) :
                          \E r \in IntnRange(board) :
                             UpdateAI(Game, r).board = With(board, t, O)
                    /\ \A c \in Cells \ ThreatCells(board) :
                          board[c[1]][c[2]] = Empty
                              => \E r \in IntnRange(board) :
                                    UpdateAI(Game, r).board = With(board, c, O)

\* The AI has moved on a board with a winning cell for X and none for O, and
\* has left X's winning cell empty.
C17_Witness ==
    /\ AIMoved
    /\ ThreatCells(prev.board) # {}
    /\ WinningCells(prev.board) = {}
    /\ \A t \in ThreatCells(prev.board) : board[t[1]][t[2]] = Empty
    /\ state = Playing
    /\ currentTurn = X

(***************************************************************************)
(* C18                                                                     *)
(***************************************************************************)
\* C18: in every reachable state the outcome agrees with the board, although
\* checkWin takes no mark. Playing: no complete line and an empty cell.
\* XWins: a line of X and none of O. OWins: a line of O and none of X.
\* Draw: a full board and no complete line.
C18_OutcomeAgreesWithBoard ==
    /\ state = Playing
          => /\ ~ HasLine(board, X)
             /\ ~ HasLine(board, O)
             /\ Count(board, Empty) >= 1
    /\ state = XWins => (HasLine(board, X) /\ ~ HasLine(board, O))
    /\ state = OWins => (HasLine(board, O) /\ ~ HasLine(board, X))
    /\ state = Draw
          => /\ Count(board, Empty) = 0
             /\ ~ HasLine(board, X)
             /\ ~ HasLine(board, O)

\* The AI has just won with the second diagonal, on a board where X holds
\* four cells and no line.
C18_Witness ==
    /\ AIMoved
    /\ state = OWins
    /\ \A i \in Idx : board[i][BoardSize - 1 - i] = O
    /\ Count(board, X) = 4
    /\ ~ HasLine(board, X)

(***************************************************************************)
(* C20                                                                     *)
(***************************************************************************)
\* C20: state Draw is entered only by a human move. The ninth mark on the
\* board is always an X, so the call in which the AI moves leaves an empty
\* cell and never makes state Draw.
C20_OnlyTheHumanDraws ==
    /\ (state = Draw /\ prev.state # Draw)
          => (HumanClicked /\ Changed(prev.board, board) # {})
    /\ AIMoved => (state # Draw /\ Count(board, Empty) >= 1)
    /\ Count(board, Empty) = 0
          => (Count(board, X) = 5 /\ call.branch # "ai")
    /\ (call.branch \in {"human", "ai"} /\ Count(prev.board, Empty) = 1
          /\ Count(board, Empty) = 0)
          => (prev.currentTurn = X /\ Changed(prev.board, board) # {}
              /\ \A c \in Changed(prev.board, board) : board[c[1]][c[2]] = X)

\* The human's fifth X has filled the board without completing a line: Draw.
C20_Witness ==
    /\ HumanClicked
    /\ prev.state = Playing
    /\ Count(prev.board, Empty) = 1
    /\ state = Draw
    /\ Count(board, X) = 5
    /\ Count(board, O) = 4

(***************************************************************************)
(* C19 (checked under LiveSpec)                                            *)
(***************************************************************************)
\* C19: if frames keep being delivered and the human, on X's turn,
\* eventually clicks an empty cell, every game that is Playing eventually is
\* XWins, OWins or Draw; and no board ever holds more than 5 X and 4 O.
C19_EveryGameEnds ==
    /\ [](Count(board, X) <= 5 /\ Count(board, O) <= 4)
    /\ (state = Playing) ~> (state # Playing)

\* A game has ended with all nine marks placed.
C19_Witness ==
    /\ state # Playing
    /\ prev.state = Playing
    /\ Count(board, X) + Count(board, O) = BoardSize * BoardSize
    /\ waited = AIDelayFrames

====
